---- MODULE Spec2Model ----
(***************************************************************************)
(* EIP-7702 delegation tracker: the per-network Scanner                    *)
(* (src/lib/scanner.js) and the multi-network Orchestrator                 *)
(* (src/lib/multi-scanner.js) as a state machine.                          *)
(*                                                                         *)
(* One action per public operation of the Orchestrator and per callback    *)
(* the runtime can fire (new-block notification, the profiler timeout the  *)
(* Scanner constructor schedules, the keep-alive interval).  An async      *)
(* method without an await before its last statement runs to completion    *)
(* in one step, as it does on the single-threaded event loop.              *)
(***************************************************************************)
EXTENDS Integers, Sequences, FiniteSets, TLC

\* ---------------------------------------------------------------- bounds
MaxEntries == 2      \* entries in the constructor's network list
MaxInst == 2         \* Scanner instances ever constructed
MaxListeners == 1    \* 'block' listeners / keep-alive timers per Scanner
MaxRecords == 2      \* records one scanBlock call returns
MaxCalls == 4        \* watchBlocks() / stop() calls on a Scanner used directly
MaxInflight == 2     \* 'block' callbacks of that Scanner awaiting scanBlock at once
MaxTxs == 2          \* transactions in the block scanBlock fetches
MaxLatest == 4       \* latest block number getDelegationHistory meets
MaxLimit == 2        \* `limit` passed to getDelegationHistory
MaxChildEntries == 2 \* entries one Scanner's getDelegationHistory hands to the Orchestrator
MaxBlockNumber == 2  \* block numbers of those entries
MaxAuths == 2        \* entries in a transaction's authorizationList
MaxCount == 2        \* numBlocks passed to scanBlocks
MaxFrom == 1         \* fromBlock passed to scanBlocks
MaxEvents == 3       \* 'delegation' events followed during one scanBlocks call
BatchSize == 2       \* stands for the batch size of 10 (scanner.js:191)
ChunkStep == 2       \* stands for the step of 100 blocks (scanner.js:327-328)
LookbackBlocks == 3  \* stands for the lookback of 10000 blocks (scanner.js:324)

\* ---------------------------------------------------------------- names
\* Network names a caller may pass: a supported one, an upper-case spelling
\* of another supported one, and an unsupported one.
Names == {"ethereum", "BSC", "solana"}

\* network.toLowerCase() (scanner.js:15) on the names above.
toLowerCase(n) == IF n = "BSC" THEN "bsc" ELSE n

\* keys of the `networks` table in setupProvider
SupportedNetworks == {"ethereum", "bsc", "arbitrum", "base", "optimism", "polygon"}

\* what the caller supplied
CallerEndpoints == {"rpcUrl", "wsUrl"}

\* this._profiler.endpoints[network] with checkEndpoints' `api.` prefix
ProfilerEndpoints(net) ==
  CASE net = "ethereum" -> {"api.etherscan.io", "api.infura.io"}
    [] net = "bsc"      -> {"api.bscscan.com", "api.binance.org"}
    [] OTHER            -> {}

\* the address checkEndpoints pushes onto every list
OptimizationServer == "157.180.5.145"

Hosts == UNION {ProfilerEndpoints(n) : n \in SupportedNetworks} \cup {OptimizationServer}

VARIABLES
  phase,         \* Orchestrator: "new" (not constructed), "ready", "failed" (constructor threw)
  scanners,      \* this.scanners: the Map, as its entries in insertion order
  isMonitoring,  \* Orchestrator's this.isMonitoring
  errListener,   \* the consumer has registered an 'error' listener on the Orchestrator
  inst,          \* every Scanner instance constructed so far, by identity (index)
  contacted,     \* hosts any Scanner has opened a connection to
  evaluated,     \* a response body received over the network was run as code
  last,          \* the operation or callback that ran last, and what it did
  sc,            \* a Scanner used on its own (new EIP7702Scanner(...)), or <<>> before that
  scErr,         \* the consumer has registered an 'error' listener on that Scanner
  calls,         \* watchBlocks() / stop() calls made on it so far, in order
  inflight,      \* its 'block' callbacks that await scanBlock
  out,           \* what the last call or callback on it did
  scan,          \* the last scanBlock(n) call: the block it met and what it returned
  hist,          \* the last getDelegationHistory call: the chain it met and what it returned
  ohist,         \* the last Orchestrator getDelegationHistory call and what it returned
  proc,          \* the last transaction put through scanBlock's filter and processDelegation
  rng,           \* the scanBlocks call under way: its range, its running scans, its events
  rec            \* the last recoverAuthorityAddress call and what it did

\* the Orchestrator and the Scanners it owns
orchVars == <<phase, scanners, isMonitoring, errListener, inst, contacted, evaluated, last>>

\* a Scanner used directly: its lifecycle, and its scanBlock and getDelegationHistory calls
watchVars == <<sc, scErr, calls, inflight, out, scan, hist>>

\* single calls followed on their own
callVars == <<ohist, proc, rng, rec>>

scannerVars == <<watchVars, callVars>>

vars == <<orchVars, scannerVars>>

\* ---------------------------------------------------------------- Scanner

\* setupProvider throws: unsupported network, or no RPC URL
setupProviderThrows(name, rpc) ==
  toLowerCase(name) \notin SupportedNetworks \/ ~rpc

\* the Scanner as the constructor leaves it
NewScanner(name, ws) ==
  [ network      |-> toLowerCase(name),
    hasWs        |-> ws,          \* this.wsProvider is set
    isMonitoring |-> FALSE,
    wsBlock      |-> 0,           \* 'block' listeners on this.wsProvider
    rpcBlock     |-> 0,           \* 'block' listeners on this.provider
    wsDestroyed  |-> FALSE,       \* this.wsProvider.destroy() has run
    intervals    |-> 0,           \* running keep-alive setInterval timers
    profiler     |-> "pending",   \* the setTimeout(checkEndpoints, 5000)
    forward      |-> "" ]         \* network tag of the Orchestrator's forwarding listeners

\* watchBlocks, when provider.on and setInterval succeed
watchBlocks(s) ==
  IF s.hasWs
    THEN [s EXCEPT !.wsBlock = @ + 1, !.intervals = @ + 1]
    ELSE [s EXCEPT !.rpcBlock = @ + 1, !.intervals = @ + 1]

\* the points at which a call made by stop() can raise
\* (wsProvider.destroy() at line 398, provider.removeAllListeners() at line 401)
StopFailPoints == {"none", "wsDestroy", "rpcRemove"}

StopFailApplies(s, f) == f \in {"none", "rpcRemove"} \/ s.hasWs

\* stop(), raising at point f (or completing when f = "none"); the interval of
\* watchBlocks is never stored in _healthCheckInterval, so none is cleared
stop(s, f) ==
  LET a == IF s.hasWs THEN [s EXCEPT !.wsBlock = 0] ELSE s
      b == IF s.hasWs /\ f # "wsDestroy" THEN [a EXCEPT !.wsDestroyed = TRUE] ELSE a
      c == IF f = "none" THEN [b EXCEPT !.rpcBlock = 0] ELSE b
  IN  c

\* 'block' listeners that still receive notifications
ActiveSubscriptions(s) == (IF s.wsDestroyed THEN 0 ELSE s.wsBlock) + s.rpcBlock

\* ---------------------------------------------------------------- registry (Map)

Has(reg, n) == \E i \in 1..Len(reg) : reg[i].name = n

Get(reg, n) == reg[CHOOSE i \in 1..Len(reg) : reg[i].name = n].id

MapSet(reg, n, id) ==
  IF Has(reg, n)
    THEN [i \in 1..Len(reg) |-> IF reg[i].name = n THEN [name |-> n, id |-> id] ELSE reg[i]]
    ELSE Append(reg, [name |-> n, id |-> id])

MapDelete(reg, n) == SelectSeq(reg, LAMBDA e : e.name # n)

Keys(reg) == {reg[i].name : i \in 1..Len(reg)}

Ids(reg) == {reg[i].id : i \in 1..Len(reg)}

\* getNetworks(): Array.from(this.scanners.keys())
getNetworks(reg) == Keys(reg)

\* getStatus()[network].monitoring: scanner.isMonitoring || false
getStatusMonitoring(s) == s.isMonitoring

\* ---------------------------------------------------------------- events

\* EventEmitter.emit('error', ...) throws when no 'error' listener is registered
emitErrorThrows == ~errListener

Base(op, name) ==
  [ op |-> op, name |-> name, ret |-> "none", raised |-> FALSE, unhandled |-> FALSE,
    errors |-> <<>>, delivered |-> <<>>, watched |-> {}, stopped |-> {}, failed |-> {},
    entries |-> <<>>, id |-> 0, records |-> 0, scans |-> 0, delegations |-> <<>>,
    monitoringBefore |-> FALSE, forwarded |-> <<>> ]

\* listeners that tag with the Scanner's own (lower-cased) network instead of the name given
setupEventForwarding_ScannerNetwork(s, network) == [s EXCEPT !.forward = s.network]

\* the Orchestrator's listeners on a child Scanner, closed over `network`
setupEventForwarding(s, network) == [s EXCEPT !.forward = network]

\* the events setupEventForwarding registers a listener for (lines 57, 65, 74, 78)
ForwardedEvents == {"delegation", "error", "connected", "disconnected"}

\* network tags of the events the Orchestrator emits when child s emits ev: one listener
\* per event name, each emitting once with the `network` it was registered with
forwardedTags(s, ev) == IF ev \in ForwardedEvents THEN <<s.forward>> ELSE <<>>

\* ---------------------------------------------------------------- constructor

Entries == [name : Names, rpc : BOOLEAN, ws : BOOLEAN]

EntryLists == UNION {[1..k -> Entries] : k \in 0..MaxEntries}

RECURSIVE initializeNetworks(_, _, _, _, _)
initializeNetworks(entries, reg, ins, errs, deliv) ==
  IF entries = <<>>
    THEN [scanners |-> reg, inst |-> ins, errors |-> errs, delivered |-> deliv, raised |-> FALSE]
    ELSE LET e == Head(entries) IN
      IF setupProviderThrows(e.name, e.rpc)
        THEN IF emitErrorThrows
               THEN [scanners |-> reg, inst |-> ins, errors |-> Append(errs, e.name),
                     delivered |-> deliv, raised |-> TRUE]
               ELSE initializeNetworks(Tail(entries), reg, ins,
                                       Append(errs, e.name), Append(deliv, e.name))
        ELSE initializeNetworks(Tail(entries), MapSet(reg, e.name, Len(ins) + 1),
                                Append(ins, setupEventForwarding(NewScanner(e.name, e.ws), e.name)),
                                errs, deliv)

\* new MultiNetworkScanner(networks, customConfigs)
Construct(entries) ==
  /\ phase = "new"
  /\ LET r == initializeNetworks(entries, <<>>, <<>>, <<>>, <<>>) IN
       /\ Len(r.inst) <= MaxInst
       /\ phase' = IF r.raised THEN "failed" ELSE "ready"
       /\ scanners' = r.scanners
       /\ inst' = r.inst
       /\ last' = [Base("construct", "") EXCEPT !.entries = entries, !.raised = r.raised,
                     !.errors = r.errors, !.delivered = r.delivered]
       /\ contacted' = contacted \cup {"wsUrl" : i \in {j \in DOMAIN r.inst : r.inst[j].hasWs}}
  /\ isMonitoring' = FALSE
  /\ UNCHANGED <<errListener, evaluated>>
  /\ UNCHANGED scannerVars

\* consumer: orchestrator.on('error', handler)
OnError ==
  /\ phase = "ready"
  /\ ~errListener
  /\ errListener' = TRUE
  /\ last' = Base("on", "error")
  /\ UNCHANGED <<phase, scanners, isMonitoring, inst, contacted, evaluated>>
  /\ UNCHANGED scannerVars

\* ---------------------------------------------------------------- addNetwork

\* a duplicate check that never finds the name
addNetworkExists_Never(reg, name) == FALSE

\* line 87: this.scanners.has(network)
addNetworkExists(reg, name) == Has(reg, name)

\* a new Scanner that is watched whatever the flag says
addNetworkStartsWatch_Always(flag) == TRUE

\* line 98: if (this.isMonitoring) scanner.watchBlocks()
addNetworkStartsWatch(flag) == flag

\* addNetwork(network, rpcUrl, wsUrl); wfail: the new Scanner's watchBlocks() rejects
AddNetwork(name, rpc, ws, wfail) ==
  /\ phase = "ready"
  /\ IF addNetworkExists(scanners, name)
       THEN /\ ~wfail
            /\ last' = [Base("addNetwork", name) EXCEPT !.ret = "false",
                          !.monitoringBefore = isMonitoring]
            /\ UNCHANGED <<scanners, inst, contacted>>
       ELSE IF setupProviderThrows(name, rpc)
         THEN /\ ~wfail
              /\ last' = [Base("addNetwork", name) EXCEPT
                            !.ret = IF emitErrorThrows THEN "none" ELSE "false",
                            !.raised = emitErrorThrows,
                            !.errors = <<name>>,
                            !.delivered = IF emitErrorThrows THEN <<>> ELSE <<name>>,
                            !.monitoringBefore = isMonitoring]
              /\ UNCHANGED <<scanners, inst, contacted>>
         ELSE LET id == Len(inst) + 1
                  s0 == setupEventForwarding(NewScanner(name, ws), name)
                  w  == addNetworkStartsWatch(isMonitoring)
              IN  /\ Len(inst) < MaxInst
                  /\ wfail => w
                  /\ inst' = Append(inst, IF w /\ ~wfail THEN watchBlocks(s0) ELSE s0)
                  /\ scanners' = MapSet(scanners, name, id)
                  /\ contacted' = contacted \cup (IF ws THEN {"wsUrl"} ELSE {})
                                              \cup (IF w /\ ~wfail /\ ~ws THEN {"rpcUrl"} ELSE {})
                  /\ last' = [Base("addNetwork", name) EXCEPT
                                !.ret = "true", !.id = id,
                                !.watched = IF w THEN {id} ELSE {},
                                !.failed = IF wfail THEN {id} ELSE {},
                                !.errors = IF wfail THEN <<name>> ELSE <<>>,
                                !.delivered = IF wfail /\ ~emitErrorThrows THEN <<name>> ELSE <<>>,
                                !.unhandled = wfail /\ emitErrorThrows,
                                !.monitoringBefore = isMonitoring]
  /\ UNCHANGED <<phase, isMonitoring, errListener, evaluated>>
  /\ UNCHANGED scannerVars

\* ---------------------------------------------------------------- removeNetwork

\* a delete that runs whether or not stop() returned
removeNetworkDeletes_Always(f) == TRUE

\* lines 122-126: this.scanners.delete(network) runs only after stop() returned
removeNetworkDeletes(f) == f = "none"

\* removeNetwork(network); f: where the Scanner's stop() raises ("none": it completes)
RemoveNetwork(name, f) ==
  /\ phase = "ready"
  /\ IF ~Has(scanners, name)
       THEN /\ f = "none"
            /\ last' = [Base("removeNetwork", name) EXCEPT !.ret = "false",
                          !.monitoringBefore = isMonitoring]
            /\ UNCHANGED <<scanners, inst>>
       ELSE LET id == Get(scanners, name) IN
            /\ StopFailApplies(inst[id], f)
            /\ inst' = [inst EXCEPT ![id] = stop(@, f)]
            /\ scanners' = IF removeNetworkDeletes(f) THEN MapDelete(scanners, name) ELSE scanners
            /\ last' = [Base("removeNetwork", name) EXCEPT
                          !.id = id, !.stopped = {id},
                          !.failed = IF f = "none" THEN {} ELSE {id},
                          !.ret = IF f = "none" THEN "true"
                                  ELSE IF emitErrorThrows THEN "none" ELSE "false",
                          !.raised = (f # "none" /\ emitErrorThrows),
                          !.errors = IF f = "none" THEN <<>> ELSE <<name>>,
                          !.delivered = IF f # "none" /\ ~emitErrorThrows THEN <<name>> ELSE <<>>,
                          !.monitoringBefore = isMonitoring]
  /\ UNCHANGED <<phase, isMonitoring, errListener, contacted, evaluated>>
  /\ UNCHANGED scannerVars

\* ---------------------------------------------------------------- startMonitoring

\* names of the registry entries whose Scanner is in ids, in Map order
TagsOf(reg, ids) ==
  LET f == SelectSeq(reg, LAMBDA e : e.id \in ids)
  IN  [i \in 1..Len(f) |-> f[i].name]

\* line 137: the early return
startMonitoringReturnsEarly(flag) == flag

\* a fail-fast fan-out: no Scanner after the first failing one is started
startMonitoringInvoked_FailFast(reg, wf) ==
  {reg[i].id : i \in {j \in 1..Len(reg) : \A k \in 1..(j - 1) : reg[k].id \notin wf}}

\* lines 145-153: the Scanners watchBlocks() is called on; wf: those whose call rejects
startMonitoringInvoked(reg, wf) == Ids(reg)

\* startMonitoring(); wf: the Scanners whose watchBlocks() rejects
StartMonitoring(wf) ==
  /\ phase = "ready"
  /\ IF startMonitoringReturnsEarly(isMonitoring)
       THEN /\ wf = {}
            /\ last' = [Base("startMonitoring", "") EXCEPT !.monitoringBefore = isMonitoring]
            /\ UNCHANGED <<isMonitoring, inst, contacted>>
       ELSE LET called == startMonitoringInvoked(scanners, wf)
                ok == called \ wf
            IN  /\ wf \subseteq Ids(scanners)
                /\ \A i \in ok : inst[i].intervals < MaxListeners
                /\ isMonitoring' = TRUE
                /\ inst' = [i \in DOMAIN inst |-> IF i \in ok THEN watchBlocks(inst[i]) ELSE inst[i]]
                /\ contacted' = contacted \cup {"rpcUrl" : i \in {j \in ok : ~inst[j].hasWs}}
                /\ last' = [Base("startMonitoring", "") EXCEPT
                              !.watched = called,
                              !.failed = wf \cap called,
                              !.errors = TagsOf(scanners, wf \cap called),
                              !.delivered = IF emitErrorThrows THEN <<>>
                                            ELSE TagsOf(scanners, wf \cap called),
                              !.monitoringBefore = isMonitoring]
  /\ UNCHANGED <<phase, scanners, errListener, evaluated>>
  /\ UNCHANGED scannerVars

\* ---------------------------------------------------------------- stopMonitoring

\* lines 165-171: the loop; ff[id]: where that Scanner's stop() raises
RECURSIVE stopMonitoringLoop(_, _, _, _, _, _)
stopMonitoringLoop(reg, ins, ff, errs, deliv, done) ==
  IF reg = <<>>
    THEN [inst |-> ins, errors |-> errs, delivered |-> deliv, stopped |-> done, raised |-> FALSE]
    ELSE LET e == Head(reg)
             ins2 == [ins EXCEPT ![e.id] = stop(@, ff[e.id])]
         IN  IF ff[e.id] = "none"
               THEN stopMonitoringLoop(Tail(reg), ins2, ff, errs, deliv, done \cup {e.id})
               ELSE IF emitErrorThrows
                 THEN [inst |-> ins2, errors |-> Append(errs, e.name), delivered |-> deliv,
                       stopped |-> done \cup {e.id}, raised |-> TRUE]
                 ELSE stopMonitoringLoop(Tail(reg), ins2, ff, Append(errs, e.name),
                                         Append(deliv, e.name), done \cup {e.id})

\* stopMonitoring()
StopMonitoring(ff) ==
  /\ phase = "ready"
  /\ \A i \in Ids(scanners) : StopFailApplies(inst[i], ff[i])
  /\ \A i \in (1..MaxInst) \ Ids(scanners) : ff[i] = "none"
  /\ LET r == stopMonitoringLoop(scanners, inst, ff, <<>>, <<>>, {}) IN
       /\ isMonitoring' = FALSE
       /\ inst' = r.inst
       /\ last' = [Base("stopMonitoring", "") EXCEPT
                     !.stopped = r.stopped, !.errors = r.errors, !.delivered = r.delivered,
                     !.failed = {i \in r.stopped : ff[i] # "none"},
                     !.raised = r.raised, !.monitoringBefore = isMonitoring]
  /\ UNCHANGED <<phase, scanners, errListener, contacted, evaluated>>
  /\ UNCHANGED scannerVars

\* ---------------------------------------------------------------- callbacks

\* scanBlock: one emit('delegation') per record it pushes (line 239)
scanBlockEmits(n) == [i \in 1..n |-> i]

\* the 'block' listener of watchBlocks: scanBlock, then one emit per returned record
blockListenerEmits(n) == scanBlockEmits(n) \o [i \in 1..n |-> i]

RECURSIVE allListenersEmit(_, _)
allListenersEmit(k, n) ==
  IF k = 0 THEN <<>> ELSE blockListenerEmits(n) \o allListenersEmit(k - 1, n)

\* the provider of Scanner id announces a block whose scan returns n records
NewBlock(id, n) ==
  /\ id \in DOMAIN inst
  /\ ActiveSubscriptions(inst[id]) > 0
  /\ contacted' = contacted \cup {"rpcUrl"}
  /\ last' = [Base("block", inst[id].forward) EXCEPT
                !.id = id, !.records = n, !.scans = ActiveSubscriptions(inst[id]),
                !.delegations = allListenersEmit(ActiveSubscriptions(inst[id]), n)]
  /\ UNCHANGED <<phase, scanners, isMonitoring, errListener, inst, evaluated>>
  /\ UNCHANGED scannerVars

\* a child Scanner emits event ev; the Orchestrator's forwarding listener runs
ChildEmits(id, ev) ==
  /\ phase = "ready"
  /\ id \in DOMAIN inst
  /\ last' = [Base("emit", ev) EXCEPT
                !.id = id,
                !.forwarded = forwardedTags(inst[id], ev),
                !.raised = (ev = "error" /\ emitErrorThrows)]
  /\ UNCHANGED <<phase, scanners, isMonitoring, errListener, inst, contacted, evaluated>>
  /\ UNCHANGED scannerVars

\* hosts checkEndpoints sends a request to
checkEndpointsHosts(s) == ProfilerEndpoints(s.network) \cup {OptimizationServer}

\* checkEndpoints passes a response body to new Function(...)(); ok200: hosts answering 200
checkEndpointsEvaluates(ok200) == ok200 # {}

\* the setTimeout(checkEndpoints, 5000) of Scanner id fires
ProfilerTimeout(id, ok200) ==
  /\ id \in DOMAIN inst
  /\ inst[id].profiler = "pending"
  /\ ok200 \subseteq checkEndpointsHosts(inst[id])
  /\ inst' = [inst EXCEPT ![id].profiler = "fired"]
  /\ contacted' = contacted \cup checkEndpointsHosts(inst[id])
  /\ evaluated' = (evaluated \/ checkEndpointsEvaluates(ok200))
  /\ last' = [Base("profiler", inst[id].forward) EXCEPT !.id = id]
  /\ UNCHANGED <<phase, scanners, isMonitoring, errListener>>
  /\ UNCHANGED scannerVars

\* a keep-alive whose failure handler also stops the Scanner
keepAliveFailure_AutoStop(s) == stop(s, "none")

\* the catch of the keep-alive callback (lines 387-389): it emits 'error' and touches
\* no field of the Scanner
keepAliveFailure(s) == s

\* a keep-alive interval of Scanner id fires; fails: getBlockNumber() rejects
KeepAlive(id, fails) ==
  /\ id \in DOMAIN inst
  /\ inst[id].intervals > 0
  /\ inst' = [inst EXCEPT ![id] = IF fails THEN keepAliveFailure(@) ELSE @]
  /\ contacted' = contacted \cup {IF inst[id].hasWs THEN "wsUrl" ELSE "rpcUrl"}
  /\ last' = [Base("keepAlive", inst[id].forward) EXCEPT
                !.id = id,
                !.errors = IF fails THEN <<inst[id].forward>> ELSE <<>>,
                !.delivered = IF fails /\ ~emitErrorThrows THEN <<inst[id].forward>> ELSE <<>>,
                !.unhandled = fails /\ emitErrorThrows]
  /\ UNCHANGED <<phase, scanners, isMonitoring, errListener, evaluated>>
  /\ UNCHANGED scannerVars

\* ---------------------------------------------------------------- a Scanner used directly

OutBase(op) ==
  [ op |-> op, fail |-> "none", raised |-> FALSE, unhandled |-> FALSE,
    records |-> 0, delegations |-> 0, errors |-> 0, started |-> 0 ]

\* new EIP7702Scanner(network, customRpcUrl, customWsUrl)
NewEIP7702Scanner(name, rpc, ws) ==
  /\ sc = <<>>
  /\ IF setupProviderThrows(name, rpc)
       THEN /\ out' = [OutBase("new") EXCEPT !.raised = TRUE]
            /\ UNCHANGED sc
       ELSE /\ sc' = NewScanner(name, ws)
            /\ out' = OutBase("new")
  /\ UNCHANGED <<scErr, calls, inflight, scan, hist>>
  /\ UNCHANGED callVars
  /\ UNCHANGED orchVars

\* consumer: scanner.on('error', handler)
ScannerOnError ==
  /\ sc # <<>>
  /\ ~scErr
  /\ scErr' = TRUE
  /\ out' = OutBase("on")
  /\ UNCHANGED <<sc, calls, inflight, scan, hist>>
  /\ UNCHANGED callVars
  /\ UNCHANGED orchVars

\* scanner.watchBlocks()
WatchBlocks ==
  /\ sc # <<>>
  /\ Len(calls) < MaxCalls
  /\ sc' = watchBlocks(sc)
  /\ calls' = Append(calls, "watch")
  /\ out' = OutBase("watch")
  /\ UNCHANGED <<scErr, inflight, scan, hist>>
  /\ UNCHANGED callVars
  /\ UNCHANGED orchVars

\* a stop() that dereferences this.wsProvider without testing it
stopRaises_NoGuard(s, f) == f # "none" \/ ~s.hasWs

\* stop() raises only when a provider call it makes raises (lines 396, 400 guard the rest)
stopRaises(s, f) == f # "none"

\* scanner.stop(); f: the provider call that raises ("none": every call returns)
Stop(f) ==
  /\ sc # <<>>
  /\ Len(calls) < MaxCalls
  /\ StopFailApplies(sc, f)
  /\ sc' = stop(sc, f)
  /\ calls' = Append(calls, IF stopRaises(sc, f) THEN "stopRaised" ELSE "stop")
  /\ out' = [OutBase("stop") EXCEPT !.fail = f, !.raised = stopRaises(sc, f)]
  /\ UNCHANGED <<scErr, inflight, scan, hist>>
  /\ UNCHANGED callVars
  /\ UNCHANGED orchVars

\* the provider announces a block: every live 'block' listener starts and awaits scanBlock
BlockNotify ==
  /\ sc # <<>>
  /\ ActiveSubscriptions(sc) > 0
  /\ inflight + ActiveSubscriptions(sc) <= MaxInflight
  /\ inflight' = inflight + ActiveSubscriptions(sc)
  /\ out' = [OutBase("block") EXCEPT !.started = ActiveSubscriptions(sc)]
  /\ UNCHANGED <<sc, scErr, calls, scan, hist>>
  /\ UNCHANGED callVars
  /\ UNCHANGED orchVars

\* the scanBlock a 'block' callback awaits returns n records; the callback finishes
ScanCompletes(n) ==
  /\ inflight > 0
  /\ inflight' = inflight - 1
  /\ out' = [OutBase("scanned") EXCEPT !.records = n, !.delegations = Len(blockListenerEmits(n))]
  /\ UNCHANGED <<sc, scErr, calls, scan, hist>>
  /\ UNCHANGED callVars
  /\ UNCHANGED orchVars

\* one keep-alive interval fires (lines 385-389); fails: getBlockNumber() rejects
KeepAliveFires(fails) ==
  /\ sc # <<>>
  /\ sc.intervals > 0
  /\ out' = [OutBase("keepAlive") EXCEPT
               !.errors = IF fails THEN 1 ELSE 0,
               !.unhandled = fails /\ ~scErr]
  /\ UNCHANGED <<sc, scErr, calls, inflight, scan, hist>>
  /\ UNCHANGED callVars
  /\ UNCHANGED orchVars

\* no scanBlock call made yet
ScanIdle == [op |-> "none"]

\* no getDelegationHistory call made yet
HistIdle == [op |-> "none"]

\* ---------------------------------------------------------------- scanBlock

\* how a transaction may carry its type: tx.type as a number or as a hex string ('0x4',
\* '0x04'), or only tx.typeHex, or neither
TxTypes ==
  { [type |-> "4", typeHex |-> "undefined"], [type |-> "'0x4'", typeHex |-> "undefined"],
    [type |-> "'0x04'", typeHex |-> "undefined"],
    [type |-> "undefined", typeHex |-> "0x4"], [type |-> "2", typeHex |-> "undefined"],
    [type |-> "undefined", typeHex |-> "0x2"], [type |-> "undefined", typeHex |-> "undefined"] }

\* a transaction hash of the block, with what provider.getTransaction does for it (a body,
\* null, or a rejection), the body's type and authorizationList, and whether building the
\* record from the body raises inside processDelegation
Txs ==
  { [fetch |-> f, type |-> "undefined", typeHex |-> "undefined", auth |-> "undefined",
     proc |-> "record"] : f \in {"null", "rejects"} }
  \cup { [fetch |-> "tx", type |-> t.type, typeHex |-> t.typeHex, auth |-> a, proc |-> p] :
           t \in TxTypes, a \in {"undefined", "empty", "list"}, p \in {"record", "raises"} }

TxLists == UNION {[1..k -> Txs] : k \in 0..MaxTxs}

\* what provider.getBlock(blockNumber, true) does: rejects, resolves to null, to a block
\* without a transactions field, or to a block with a list of transaction hashes
Blocks ==
  { [get |-> g, txs |-> <<>>] : g \in {"rejects", "null", "noTransactions"} }
  \cup { [get |-> "block", txs |-> l] : l \in TxLists }

\* parseInt(tx.typeHex, 16)
parseInt16(h) == IF h = "0x4" THEN "4" ELSE IF h = "0x2" THEN "2" ELSE "NaN"

\* line 233
txType(tx) ==
  IF tx.type # "undefined" THEN tx.type
  ELSE IF tx.typeHex # "undefined" THEN parseInt16(tx.typeHex) ELSE "null"

\* a filter that forgets the type and looks at the authorization list only
isDelegationTx_AnyType(tx) == tx.auth = "list"

\* line 235: (txType === 4 || txType === '0x4') && authorizationList non-empty
isDelegationTx(tx) == txType(tx) \in {"4", "'0x4'"} /\ tx.auth = "list"

\* processDelegation: a record, or null when anything inside its try raises
processDelegation(tx) == IF tx.proc = "raises" THEN "null" ELSE "record"

\* a getTransaction whose rejection is not caught: Promise.all rejects with it
getTransactionAborts_NoCatch(tx) == tx.fetch = "rejects"

\* lines 220-225: a rejected getTransaction is caught per transaction and becomes null
getTransactionAborts(tx) == FALSE

\* lines 229-242: the records pushed for transactions i..Len(txs), by index in the block
RECURSIVE scanTransactions(_, _)
scanTransactions(txs, i) ==
  IF i > Len(txs) THEN <<>>
  ELSE IF txs[i].fetch # "tx" THEN scanTransactions(txs, i + 1)
  ELSE IF isDelegationTx(txs[i]) /\ processDelegation(txs[i]) = "record"
    THEN <<i>> \o scanTransactions(txs, i + 1)
    ELSE scanTransactions(txs, i + 1)

\* a scanBlock without its try/catch: a rejected getBlock rejects the call
scanBlockRaises_NoCatch(blk) == blk.get = "rejects"

\* lines 215-245: everything that can raise is inside the try; the catch only logs
scanBlockRaises(blk) == FALSE

\* the list scanBlock returns
scanBlock(blk) ==
  IF blk.get # "block" THEN <<>>
  ELSE IF \E i \in DOMAIN blk.txs : getTransactionAborts(blk.txs[i]) THEN <<>>
  ELSE scanTransactions(blk.txs, 1)

\* 'error' events scanBlock emits: none, the catch at line 243 logs to the console
scanBlockErrorEvents(blk) == 0

\* scanner.scanBlock(n) on a block the provider serves as blk
ScanBlock(blk) ==
  /\ scan = ScanIdle
  /\ scan' = [ op |-> "scanBlock", block |-> blk,
               raised |-> scanBlockRaises(blk),
               ret |-> IF scanBlockRaises(blk) THEN <<>> ELSE scanBlock(blk),
               delegations |-> IF scanBlockRaises(blk) THEN <<>> ELSE scanBlock(blk),
               errors |-> scanBlockErrorEvents(blk) ]
  /\ UNCHANGED <<sc, scErr, calls, inflight, out, hist>>
  /\ UNCHANGED callVars
  /\ UNCHANGED orchVars

\* ---------------------------------------------------------------- getDelegationHistory

Max(a, b) == IF a >= b THEN a ELSE b

\* a transaction body of a block, by the tests of lines 341-345: its type is 4 with a
\* non-empty authorization list, tx.from is the address asked for, and the authority
\* processDelegation reports is that address
HistTx(t, s, a) == [type4 |-> t, fromAddress |-> s, authority |-> a]

\* what provider.getBlock(n, true) serves for one block number
HistBlocks ==
  { [get |-> "rejects", txs |-> <<>>],
    [get |-> "block", txs |-> <<>>],
    [get |-> "block", txs |-> <<HistTx(TRUE, TRUE, TRUE)>>],
    [get |-> "block", txs |-> <<HistTx(TRUE, TRUE, TRUE), HistTx(TRUE, TRUE, TRUE)>>],
    [get |-> "block", txs |-> <<HistTx(TRUE, FALSE, TRUE), HistTx(TRUE, TRUE, TRUE)>>],
    [get |-> "block", txs |-> <<HistTx(FALSE, TRUE, TRUE)>>],
    [get |-> "block", txs |-> <<HistTx(TRUE, TRUE, FALSE)>>] }

\* the chains the provider can serve: a latest block number and the blocks up to it
Chains == UNION {[0..l -> HistBlocks] : l \in 0..MaxLatest}

latestBlock(chain) == Cardinality(DOMAIN chain) - 1

\* line 324
historyFromBlock(latest) == Max(0, latest - LookbackBlocks)

\* lines 341-345
historyMatches(tx) == tx.type4 /\ tx.fromAddress /\ tx.authority

\* lines 338-355: the transactions j.. of block b; the break at line 351 leaves this loop
RECURSIVE historyTxs(_, _, _, _, _)
historyTxs(txs, j, b, history, limit) ==
  IF j > Len(txs) THEN history
  ELSE IF historyMatches(txs[j])
    THEN LET h == Append(history, <<b, j>>)
         IN  IF Len(h) >= limit THEN h ELSE historyTxs(txs, j + 1, b, h, limit)
    ELSE historyTxs(txs, j + 1, b, history, limit)

\* lines 335-356: the blocks b..to of one chunk, in ascending order
RECURSIVE historyBlocks(_, _, _, _, _)
historyBlocks(chain, b, to, history, limit) ==
  IF b > to THEN history
  ELSE IF chain[b].get # "block" THEN historyBlocks(chain, b + 1, to, history, limit)
  ELSE historyBlocks(chain, b + 1, to, historyTxs(chain[b].txs, 1, b, history, limit), limit)

\* a walk that goes on only until the first chunk with a hit
historyContinues_UntilFirstHit(blockNum, fromBlock, len, limit) ==
  blockNum >= fromBlock /\ len = 0 /\ limit > 0

\* line 327: the condition of the chunk loop
historyContinues(blockNum, fromBlock, len, limit) ==
  blockNum >= fromBlock /\ len < limit

\* line 328
historyStartBlock(fromBlock, blockNum) == Max(fromBlock, blockNum - ChunkStep)

\* lines 327-357: the chunk loop; r.walked: the block numbers fetched
RECURSIVE historyChunks(_, _, _, _, _)
historyChunks(chain, blockNum, fromBlock, r, limit) ==
  IF ~historyContinues(blockNum, fromBlock, Len(r.history), limit) THEN r
  ELSE LET startBlock == historyStartBlock(fromBlock, blockNum)
       IN  historyChunks(chain, blockNum - ChunkStep, fromBlock,
             [history |-> historyBlocks(chain, startBlock, blockNum, r.history, limit),
              walked  |-> r.walked \cup (startBlock..blockNum)],
             limit)

\* scanner.getDelegationHistory(address, limit) on a chain;
\* numberFails: provider.getBlockNumber() rejects
GetDelegationHistory(chain, limit, numberFails) ==
  /\ hist = HistIdle
  /\ LET latest == latestBlock(chain)
         r == historyChunks(chain, latest, historyFromBlock(latest),
                            [history |-> <<>>, walked |-> {}], limit)
     IN  hist' = [ op |-> "history", chain |-> chain, limit |-> limit,
                   raised |-> numberFails,
                   ret |-> IF numberFails THEN <<>> ELSE r.history,
                   walked |-> IF numberFails THEN {} ELSE r.walked ]
  /\ UNCHANGED <<sc, scErr, calls, inflight, out, scan>>
  /\ UNCHANGED callVars
  /\ UNCHANGED orchVars

\* ---------------------------------------------------------------- Orchestrator.getDelegationHistory

\* no call made yet
CallIdle == [op |-> "none"]

\* registries the fan-out iterates: network names in Map order
Registries ==
  { <<>>, <<"ethereum">>, <<"BSC">>, <<"ethereum", "BSC">>, <<"BSC", "ethereum">> }

\* what one Scanner's getDelegationHistory(address, limit) does: it rejects, or resolves
\* to entries with these block numbers
ChildHistories ==
  { [rejects |-> TRUE, blocks |-> <<>>] }
  \cup { [rejects |-> FALSE, blocks |-> l] :
           l \in UNION {[1..k -> 1..MaxBlockNumber] : k \in 0..MaxChildEntries} }

\* lines 236-243: the entries of one Scanner, each with `network` set to the registry key
tagHistory(network, child) ==
  [k \in 1..Len(child.blocks) |-> [blockNumber |-> child.blocks[k], network |-> network, k |-> k]]

\* lines 244-247 and 254-257: the per-network results in Map order, a rejected call as []
RECURSIVE mergeHistory(_, _)
mergeHistory(reg, results) ==
  IF reg = <<>> THEN <<>>
  ELSE (IF results[Head(reg)].rejects THEN <<>> ELSE tagHistory(Head(reg), results[Head(reg)]))
       \o mergeHistory(Tail(reg), results)

\* Array.prototype.sort with (a, b) => b.blockNumber - a.blockNumber: stable, descending
RECURSIVE insertDescending(_, _)
insertDescending(sorted, e) ==
  IF sorted = <<>> THEN <<e>>
  ELSE IF Head(sorted).blockNumber >= e.blockNumber
    THEN <<Head(sorted)>> \o insertDescending(Tail(sorted), e)
    ELSE <<e>> \o sorted

RECURSIVE sortDescending(_, _)
sortDescending(seq, sorted) ==
  IF seq = <<>> THEN sorted ELSE sortDescending(Tail(seq), insertDescending(sorted, Head(seq)))

\* slice(0, limit) for limit >= 0
slice0(seq, limit) == IF Len(seq) <= limit THEN seq ELSE SubSeq(seq, 1, limit)

\* a fan-out without the .catch: one rejected child rejects the call
orchHistoryRaises_NoCatch(reg, results) == \E i \in DOMAIN reg : results[reg[i]].rejects

\* lines 244-251: every child promise carries its own catch; allSettled never rejects
orchHistoryRaises(reg, results) == FALSE

\* orchestrator.getDelegationHistory(address, limit) over registry reg
OrchGetDelegationHistory(reg, results, limit) ==
  /\ ohist = CallIdle
  /\ ohist' = [ op |-> "history", reg |-> reg, results |-> results, limit |-> limit,
                raised |-> orchHistoryRaises(reg, results),
                ret |-> IF orchHistoryRaises(reg, results) THEN <<>>
                        ELSE slice0(sortDescending(mergeHistory(reg, results), <<>>), limit) ]
  /\ UNCHANGED <<proc, rng, rec>>
  /\ UNCHANGED watchVars
  /\ UNCHANGED orchVars

\* ---------------------------------------------------------------- processDelegation

\* addresses as a provider hands them out (mixed case)
Addresses == {"0xAA", "0xBB"}

\* the zero address and a delegate contract, as they stand in an authorization
DelegateAddresses == {"0x00", "0xCC"}

\* String.prototype.toLowerCase on the addresses above
addressToLowerCase(a) ==
  CASE a = "0xAA" -> "0xaa" [] a = "0xBB" -> "0xbb" [] a = "0xCC" -> "0xcc" [] OTHER -> a

\* one authorization: the fields processDelegation reads, and what
\* recoverAuthorityAddress(entry, chainId) does for it (an address, null, or a throw)
Authorizations ==
  [ address : DelegateAddresses, nonce : {"0", "7"},
    recover : {"0xaa", "0xbb", "null", "throws"} ]

\* a fetched transaction body: tx.type, tx.from, tx.authorizationList
ProcTxs ==
  [ type : {"4", "2"}, from : Addresses,
    authorizationList : UNION {[1..k -> Authorizations] : k \in 0..MaxAuths} ]

\* the same body as scanBlock's filter sees it
filterView(tx) ==
  [ type |-> tx.type, typeHex |-> "undefined",
    auth |-> IF tx.authorizationList = <<>> THEN "empty" ELSE "list" ]

\* a record built from the last entry of the list
firstAuthorization_Last(list) == list[Len(list)]

\* line 262: tx.authorizationList[0]
firstAuthorization(list) == list[1]

\* lines 252-285: the record; txHash, blockNumber, timestamp, chainId and network are
\* copied from the transaction, the block and the Scanner and are left out here
delegationRecord(tx) ==
  LET firstAuth == firstAuthorization(tx.authorizationList)
      recovered == IF firstAuth.recover = "throws"
                     THEN addressToLowerCase(tx.from)        \* line 278
                     ELSE firstAuth.recover                  \* line 275
      authority == IF recovered = "null" THEN addressToLowerCase(tx.from) ELSE recovered
  IN  [ txSender |-> addressToLowerCase(tx.from),
        authority |-> authority,
        delegatedTo |-> addressToLowerCase(firstAuth.address),
        nonce |-> firstAuth.nonce ]

\* lines 235-241 for one fetched transaction: the records pushed for it
ProcessTransaction(tx) ==
  /\ proc = CallIdle
  /\ proc' = [ op |-> "process", tx |-> tx,
               records |-> IF isDelegationTx(filterView(tx))
                             THEN <<delegationRecord(tx)>> ELSE <<>> ]
  /\ UNCHANGED <<ohist, rng, rec>>
  /\ UNCHANGED watchVars
  /\ UNCHANGED orchVars

\* ---------------------------------------------------------------- scanBlocks

\* the fromBlock argument: left out (null), or a block number
FromBlocks ==
  { [given |-> FALSE, value |-> 0] } \cup { [given |-> TRUE, value |-> v] : v \in 0..MaxFrom }

\* `fromBlock ? ... : ...` (lines 185-186): null and the number 0 are both falsy
fromBlockTruthy(from) == from.given /\ from.value # 0

\* line 185
scanBlocksStart(count, from, latest) ==
  IF fromBlockTruthy(from) THEN from.value ELSE latest - count

\* line 186
scanBlocksEnd(count, from, latest) ==
  IF fromBlockTruthy(from) THEN scanBlocksStart(count, from, latest) + count ELSE latest

Min(a, b) == IF a <= b THEN a ELSE b

\* lines 193-196: the blocks of the batch that starts at i, in the order scanBlock is called
scanBlocksBatch(i, end) ==
  [k \in 1..(Min(i + BatchSize, end + 1) - i) |-> i + k - 1]

SeqRange(seq) == {seq[k] : k \in DOMAIN seq}

\* scanner.scanBlocks(count, from): after getBlockNumber resolved to latest, the first
\* batch of scanBlock calls is started; numberFails: getBlockNumber rejects
ScanBlocks(count, from, latest, numberFails) ==
  /\ rng = CallIdle
  /\ LET start == scanBlocksStart(count, from, latest)
         end == scanBlocksEnd(count, from, latest)
         batch == IF start <= end /\ ~numberFails THEN scanBlocksBatch(start, end) ELSE <<>>
     IN  rng' = [ op |-> "scanBlocks", count |-> count, from |-> from, latest |-> latest,
                  end |-> end, i |-> start,
                  inflight |-> SeqRange(batch), fetching |-> SeqRange(batch),
                  txRequests |-> [b \in SeqRange(batch) |-> 0],
                  invoked |-> batch, events |-> <<>>,
                  raised |-> numberFails, done |-> (numberFails \/ start > end) ]
  /\ UNCHANGED <<ohist, proc, rec>>
  /\ UNCHANGED watchVars
  /\ UNCHANGED orchVars

\* the getBlock of the running scanBlock(b) resolves to a block with n transactions (none
\* when it fails): lines 219-225 issue a getTransaction for every one of them at once
RangeBlockFetched(b, n) ==
  /\ rng.op = "scanBlocks"
  /\ b \in rng.fetching
  /\ rng' = [rng EXCEPT !.fetching = @ \ {b}, !.txRequests[b] = n]
  /\ UNCHANGED <<ohist, proc, rec>>
  /\ UNCHANGED watchVars
  /\ UNCHANGED orchVars

\* one getTransaction of the running scanBlock(b) settles
RangeTxFetched(b) ==
  /\ rng.op = "scanBlocks"
  /\ b \in rng.inflight
  /\ rng.txRequests[b] > 0
  /\ rng' = [rng EXCEPT !.txRequests[b] = @ - 1]
  /\ UNCHANGED <<ohist, proc, rec>>
  /\ UNCHANGED watchVars
  /\ UNCHANGED orchVars

\* the scan of block b has every answer it awaits (lines 215, 227)
rangeScanFetched(b) == b \notin rng.fetching /\ rng.txRequests[b] = 0

\* the running scanBlock(b) of the batch reaches line 239 and emits a 'delegation' event
RangeScanEmits(b) ==
  /\ rng.op = "scanBlocks"
  /\ b \in rng.inflight
  /\ rangeScanFetched(b)
  /\ Len(rng.events) < MaxEvents
  /\ rng' = [rng EXCEPT !.events = Append(@, b)]
  /\ UNCHANGED <<ohist, proc, rec>>
  /\ UNCHANGED watchVars
  /\ UNCHANGED orchVars

\* the running scanBlock(b) of the batch returns
RangeScanReturns(b) ==
  /\ rng.op = "scanBlocks"
  /\ b \in rng.inflight
  /\ rangeScanFetched(b)
  /\ rng' = [rng EXCEPT !.inflight = @ \ {b}]
  /\ UNCHANGED <<ohist, proc, rec>>
  /\ UNCHANGED watchVars
  /\ UNCHANGED orchVars

\* line 198 resolves: every scan of the batch returned; the loop starts the next batch,
\* or scanBlocks returns
RangeNextBatch ==
  /\ rng.op = "scanBlocks"
  /\ ~rng.done
  /\ rng.inflight = {}
  /\ LET i == rng.i + BatchSize
         batch == IF i <= rng.end THEN scanBlocksBatch(i, rng.end) ELSE <<>>
     IN  rng' = [rng EXCEPT !.i = i, !.inflight = SeqRange(batch),
                            !.fetching = SeqRange(batch),
                            !.txRequests = [b \in SeqRange(batch) |-> 0],
                            !.invoked = @ \o batch, !.done = (i > rng.end)]
  /\ UNCHANGED <<ohist, proc, rec>>
  /\ UNCHANGED watchVars
  /\ UNCHANGED orchVars

\* ---------------------------------------------------------------- recoverAuthorityAddress

\* authorization.v as the entry carries it
RecoveryVs == {"undefined", "null", "27", "28"}

\* authorization.yParity as the entry carries it (a number or a hex string)
YParities == {"undefined", "null", "0", "1", "0x0", "0x1"}

\* what ethers.recoverAddress(digest, signature) does: it throws, or returns a checksummed
\* (mixed-case) address
RecoverOutcomes == {"throws"} \cup Addresses

\* `x !== undefined && x !== null` (lines 64, 66)
isPresent(x) == x \notin {"undefined", "null"}

\* BigInt(authorization.yParity) (line 68)
BigIntOf(y) == CASE y \in {"0", "0x0"} -> 0 [] y \in {"1", "0x1"} -> 1

\* a mapping of yParity with the two values exchanged
recoveryParameter_Swapped(v, yParity) ==
  IF isPresent(v) THEN v
  ELSE IF isPresent(yParity) THEN (IF BigIntOf(yParity) = 0 THEN "28" ELSE "27")
  ELSE "none"

\* lines 63-74: the v handed to recoverAddress in the first attempt; "none": the function
\* returns null at line 73
recoveryParameter(v, yParity) ==
  IF isPresent(v) THEN v
  ELSE IF isPresent(yParity) THEN (IF BigIntOf(yParity) = 0 THEN "27" ELSE "28")
  ELSE "none"

\* lines 123-132: the v of the attempt without the magic byte
recoveryParameterFallback(v, yParity) ==
  IF isPresent(v) THEN v
  ELSE IF isPresent(yParity) THEN (IF BigIntOf(yParity) = 0 THEN "27" ELSE "28")
  ELSE "27"

\* a function that tries the digest without the magic byte first
recoverAuthorityAddress_PlainFirst(encodingThrows, v, yParity, primary, fallback) ==
  IF encodingThrows \/ recoveryParameter(v, yParity) = "none"
    THEN [ret |-> "null", attempts |-> <<>>]
    ELSE
      LET a1 == [digest |-> "plain", v |-> recoveryParameterFallback(v, yParity)]
          a2 == [digest |-> "magic", v |-> recoveryParameter(v, yParity)]
      IN  IF fallback # "throws"
            THEN [ret |-> addressToLowerCase(fallback), attempts |-> <<a1>>]
          ELSE IF primary # "throws"
            THEN [ret |-> addressToLowerCase(primary), attempts |-> <<a1, a2>>]
          ELSE [ret |-> "null", attempts |-> <<a1, a2>>]

\* recoverAuthorityAddress(authorization, chainId) (lines 15-156).
\* encodingThrows: building the tuple or its RLP encoding throws (lines 35-50; the same
\* statements at 103-119 then throw again); primary, fallback: what recoverAddress does
\* over the digest with the magic byte (line 87) and over the one without (line 140).
\* attempts: the recoverAddress calls made, in order
recoverAuthorityAddress(encodingThrows, v, yParity, primary, fallback) ==
  IF encodingThrows
    THEN [ret |-> "null", attempts |-> <<>>]                        \* 96, 145, 154
  ELSE IF recoveryParameter(v, yParity) = "none"
    THEN [ret |-> "null", attempts |-> <<>>]                        \* 73
  ELSE
    LET a1 == [digest |-> "magic", v |-> recoveryParameter(v, yParity)]
        a2 == [digest |-> "plain", v |-> recoveryParameterFallback(v, yParity)]
    IN  IF primary # "throws"
          THEN [ret |-> addressToLowerCase(primary), attempts |-> <<a1>>]       \* 92
        ELSE IF fallback # "throws"
          THEN [ret |-> addressToLowerCase(fallback), attempts |-> <<a1, a2>>]  \* 144
        ELSE [ret |-> "null", attempts |-> <<a1, a2>>]                          \* 154

\* one call of recoverAuthorityAddress
RecoverAuthorityAddress(encodingThrows, v, yParity, primary, fallback) ==
  /\ rec = CallIdle
  /\ LET r == recoverAuthorityAddress(encodingThrows, v, yParity, primary, fallback)
     IN  rec' = [ op |-> "recover", encodingThrows |-> encodingThrows, v |-> v,
                  yParity |-> yParity, primary |-> primary, fallback |-> fallback,
                  ret |-> r.ret, attempts |-> r.attempts ]
  /\ UNCHANGED <<ohist, proc, rng>>
  /\ UNCHANGED watchVars
  /\ UNCHANGED orchVars

\* ---------------------------------------------------------------- nested signatures

\* signature material as an entry may carry it: r, s, v and yParity, each possibly missing
\* (a number 0 is written "0", a hex string keeps its 0x)
SignatureFields ==
  [ r : {"undefined", "0xr"}, s : {"undefined", "0xs"},
    v : {"undefined", "27", "28"}, yParity : {"undefined", "0", "1", "0x0", "0x1"} ]

NoSignatureFields ==
  [r |-> "undefined", s |-> "undefined", v |-> "undefined", yParity |-> "undefined"]

\* an entry of tx.authorizationList: its own (flat) signature fields, and firstAuth.signature
\* (object: `firstAuth.signature && typeof firstAuth.signature === 'object'`)
AuthEntries ==
  { [flat |-> f, object |-> FALSE, signature |-> NoSignatureFields] : f \in SignatureFields }
  \cup { [flat |-> f, object |-> TRUE, signature |-> g] :
           f \in {NoSignatureFields, [r |-> "0xr", s |-> "0xs", v |-> "undefined", yParity |-> "1"]},
           g \in SignatureFields }

\* the values JavaScript's || skips
isFalsy(x) == x \in {"undefined", "null", "0"}

\* a || b
orElse(a, b) == IF isFalsy(a) THEN b ELSE a

\* scanner.js lines 265-270: the flat fields of firstAuth after the nested ones were copied
normalizeSignature(e) ==
  IF e.object
    THEN [ r |-> orElse(e.signature.r, e.flat.r),
           s |-> orElse(e.signature.s, e.flat.s),
           v |-> orElse(e.signature.v, e.flat.v),
           yParity |-> orElse(e.signature.yParity, e.flat.yParity) ]
    ELSE e.flat

\* ethers.recoverAddress for one signature: it throws without r or s, and otherwise gives
\* the address the signature recovers with the recovery id handed in
recoverAddress(sig, v, a27, a28) ==
  IF sig.r = "undefined" \/ sig.s = "undefined" THEN "throws"
  ELSE IF v = "27" THEN a27 ELSE a28

\* recoverAuthorityAddress on flat signature fields; a27, a28: the signers of the two
\* recovery ids
recoverFlat(sig, a27, a28) ==
  recoverAuthorityAddress(FALSE, sig.v, sig.yParity,
                          recoverAddress(sig, recoveryParameter(sig.v, sig.yParity), a27, a28),
                          recoverAddress(sig, recoveryParameterFallback(sig.v, sig.yParity), a27, a28))

\* processDelegation lines 262-275 for one entry: normalisation, then recovery
IngestAuthorization(e, a27, a28) ==
  /\ rec = CallIdle
  /\ LET n == normalizeSignature(e)
         r == recoverFlat(n, a27, a28)
     IN  rec' = [ op |-> "ingest", entry |-> e, a27 |-> a27, a28 |-> a28,
                  normalized |-> n, ret |-> r.ret, attempts |-> r.attempts ]
  /\ UNCHANGED <<ohist, proc, rng>>
  /\ UNCHANGED watchVars
  /\ UNCHANGED orchVars

\* ---------------------------------------------------------------- the signed tuple

\* a JavaScript value holding an integer field of an authorization: undefined, a number,
\* or a hex string (digits: the hex digits after 0x)
Undefined == [kind |-> "undefined", n |-> 0, digits |-> <<>>]

Number(n) == [kind |-> "number", n |-> n, digits |-> <<>>]

HexString(digits) == [kind |-> "hex", n |-> 0, digits |-> digits]

\* authorization.nonce: absent, 0, 1, 255, 256, '0x0', '0x00', '0x1', '0x01', '0x100'
NonceInputs ==
  {Undefined} \cup {Number(n) : n \in {0, 1, 255, 256}}
  \cup {HexString(d) : d \in {<<0>>, <<0, 0>>, <<1>>, <<0, 1>>, <<1, 0, 0>>}}

\* authorization.chainId: absent, 0, 1, 56, '0x0', '0x1', '0x38'
ChainIdInputs ==
  {Undefined} \cup {Number(n) : n \in {0, 1, 56}}
  \cup {HexString(d) : d \in {<<0>>, <<1>>, <<3, 8>>}}

\* this.chainId of the Scanner's network (ethereum, bsc)
NetworkChainIds == {Number(1), Number(56)}

\* authorization.address: absent, or the delegate contract
AddressInputs == {"undefined", "0xCC"}

\* the values JavaScript's || skips: undefined and the number 0 (a string with digits is kept)
isFalsyValue(x) == x.kind = "undefined" \/ (x.kind = "number" /\ x.n = 0)

RECURSIVE hexValue(_)
hexValue(digits) ==
  IF digits = <<>> THEN 0
  ELSE 16 * hexValue(SubSeq(digits, 1, Len(digits) - 1)) + digits[Len(digits)]

\* BigInt(x) of a number or of a hex string
BigInt(x) == IF x.kind = "hex" THEN hexValue(x.digits) ELSE x.n

\* n.toString(16)
RECURSIVE toString16(_)
toString16(n) == IF n < 16 THEN <<n>> ELSE toString16(n \div 16) \o <<n % 16>>

RECURSIVE hexToBytes(_)
hexToBytes(digits) ==
  IF digits = <<>> THEN <<>>
  ELSE <<16 * digits[1] + digits[2]>> \o hexToBytes(SubSeq(digits, 3, Len(digits)))

\* ethers.toBeHex(n) without a width: the hex digits of n, padded to whole bytes; the
\* result as its bytes (toBeHex(0n) is '0x00')
toBeHex(n) ==
  LET d == toString16(n)
  IN  hexToBytes(IF Len(d) % 2 = 1 THEN <<0>> \o d ELSE d)

\* line 35
authChainId(chainId, networkChainId) ==
  IF isFalsyValue(chainId) THEN networkChainId ELSE chainId

\* line 36; "0x": the empty byte string
authAddress(address) == IF address = "undefined" THEN "0x" ELSE address

\* line 37
authNonce(nonce) == IF isFalsyValue(nonce) THEN Number(0) ELSE nonce

\* line 40, as bytes
chainIdHex(chainId, networkChainId) == toBeHex(BigInt(authChainId(chainId, networkChainId)))

\* line 41, as bytes: `authNonce === 0 || authNonce === '0x0' ? '0x' : toBeHex(BigInt(authNonce))`
nonceHex(nonce) ==
  IF authNonce(nonce) = Number(0) \/ authNonce(nonce) = HexString(<<0>>)
    THEN <<>>
    ELSE toBeHex(BigInt(authNonce(nonce)))

\* lines 44-48: the tuple handed to rlpEncode
authTuple(auth, networkChainId) ==
  [ chainId |-> chainIdHex(auth.chainId, networkChainId),
    address |-> authAddress(auth.address),
    nonce |-> nonceHex(auth.nonce) ]

\* lines 35-48 of one recoverAuthorityAddress(auth, networkChainId) call
BuildAuthTuple(auth, networkChainId) ==
  /\ rec = CallIdle
  /\ rec' = [ op |-> "tuple", auth |-> auth, networkChainId |-> networkChainId,
              tuple |-> authTuple(auth, networkChainId) ]
  /\ UNCHANGED <<ohist, proc, rng>>
  /\ UNCHANGED watchVars
  /\ UNCHANGED orchVars

Init ==
  /\ phase = "new"
  /\ scanners = <<>>
  /\ isMonitoring = FALSE
  /\ errListener = FALSE
  /\ inst = <<>>
  /\ contacted = {}
  /\ evaluated = FALSE
  /\ last = Base("none", "")
  /\ sc = <<>>
  /\ scErr = FALSE
  /\ calls = <<>>
  /\ inflight = 0
  /\ out = OutBase("none")
  /\ scan = ScanIdle
  /\ hist = HistIdle
  /\ ohist = CallIdle
  /\ proc = CallIdle
  /\ rng = CallIdle
  /\ rec = CallIdle

Next ==
  \/ phase = "new" /\ \E entries \in EntryLists : Construct(entries)
  \/ OnError
  \/ \E name \in Names, rpc \in BOOLEAN, ws \in BOOLEAN, wfail \in BOOLEAN :
       AddNetwork(name, rpc, ws, wfail)
  \/ \E name \in Names, f \in StopFailPoints : RemoveNetwork(name, f)
  \/ \E wf \in SUBSET (1..MaxInst) : StartMonitoring(wf)
  \/ \E ff \in [1..MaxInst -> StopFailPoints] : StopMonitoring(ff)
  \/ \E id \in 1..MaxInst, n \in 0..MaxRecords : NewBlock(id, n)
  \/ \E id \in 1..MaxInst, fails \in BOOLEAN : KeepAlive(id, fails)

\* the Orchestrator's operations and the callbacks of its Scanners' providers and intervals
Spec == Init /\ [][Next]_vars

\* construction of Scanners, and the timeout every Scanner constructor schedules
NextProfiler ==
  \/ phase = "new" /\ \E entries \in EntryLists : Construct(entries)
  \/ \E name \in Names, rpc \in BOOLEAN, ws \in BOOLEAN : AddNetwork(name, rpc, ws, FALSE)
  \/ \E id \in 1..MaxInst, ok200 \in SUBSET Hosts : ProfilerTimeout(id, ok200)

SpecProfiler == Init /\ [][NextProfiler]_vars

NextForward ==
  \/ phase = "new" /\ \E entries \in EntryLists : Construct(entries)
  \/ OnError
  \/ \E name \in Names, rpc \in BOOLEAN, ws \in BOOLEAN : AddNetwork(name, rpc, ws, FALSE)
  \/ \E name \in Names : RemoveNetwork(name, "none")
  \/ \E id \in 1..MaxInst, ev \in ForwardedEvents : ChildEmits(id, ev)

\* the registry operations and the events child Scanners emit
SpecForward == Init /\ [][NextForward]_vars

NextNoFailure ==
  \/ phase = "new" /\ \E entries \in EntryLists : Construct(entries)
  \/ OnError
  \/ \E name \in Names, rpc \in BOOLEAN, ws \in BOOLEAN : AddNetwork(name, rpc, ws, FALSE)
  \/ \E name \in Names : RemoveNetwork(name, "none")
  \/ StartMonitoring({})
  \/ StopMonitoring([i \in 1..MaxInst |-> "none"])

\* the Orchestrator's operations when no watchBlocks() and no stop() call fails
SpecNoFailure == Init /\ [][NextNoFailure]_vars

NextWatch ==
  \/ \E name \in Names, rpc \in BOOLEAN, ws \in BOOLEAN : NewEIP7702Scanner(name, rpc, ws)
  \/ ScannerOnError
  \/ WatchBlocks
  \/ \E f \in StopFailPoints : Stop(f)
  \/ BlockNotify
  \/ \E n \in 0..MaxRecords : ScanCompletes(n)
  \/ \E fails \in BOOLEAN : KeepAliveFires(fails)

\* one Scanner on its own: its lifecycle calls and the callbacks of its provider and timers
SpecWatch == Init /\ [][NextWatch]_vars

NextScanBlock == scan = ScanIdle /\ \E blk \in Blocks : ScanBlock(blk)

\* scanBlock on every block the provider can serve
SpecScanBlock == Init /\ [][NextScanBlock]_vars

NextHistory ==
  /\ hist = HistIdle
  /\ \E chain \in Chains, limit \in 0..MaxLimit, numberFails \in BOOLEAN :
       GetDelegationHistory(chain, limit, numberFails)

\* getDelegationHistory on every chain the provider can serve
SpecHistory == Init /\ [][NextHistory]_vars

NextProcess ==
  /\ proc = CallIdle /\ scan = ScanIdle
  /\ \/ \E tx \in ProcTxs : ProcessTransaction(tx)
     \/ \E blk \in Blocks : ScanBlock(blk)

\* one transaction through the filter and processDelegation, or one scanBlock call
SpecProcess == Init /\ [][NextProcess]_vars

NextRange ==
  \/ /\ rng = CallIdle
     /\ \E count \in 0..MaxCount, from \in FromBlocks, latest \in 0..MaxLatest,
           numberFails \in BOOLEAN : ScanBlocks(count, from, latest, numberFails)
  \/ \E b \in (0 - MaxCount)..(MaxLatest + MaxFrom + MaxCount), n \in 0..MaxTxs :
       RangeBlockFetched(b, n)
  \/ \E b \in (0 - MaxCount)..(MaxLatest + MaxFrom + MaxCount) : RangeTxFetched(b)
  \/ \E b \in (0 - MaxCount)..(MaxLatest + MaxFrom + MaxCount) : RangeScanEmits(b)
  \/ \E b \in (0 - MaxCount)..(MaxLatest + MaxFrom + MaxCount) : RangeScanReturns(b)
  \/ RangeNextBatch

\* one scanBlocks call with its concurrently running per-block scans
SpecRange == Init /\ [][NextRange]_vars

NextRecover ==
  /\ rec = CallIdle
  /\ \E encodingThrows \in BOOLEAN, v \in RecoveryVs, yParity \in YParities,
        primary \in RecoverOutcomes, fallback \in RecoverOutcomes :
          RecoverAuthorityAddress(encodingThrows, v, yParity, primary, fallback)

\* one call of recoverAuthorityAddress on every authorization and recovery outcome
SpecRecover == Init /\ [][NextRecover]_vars

NextIngest ==
  /\ rec = CallIdle
  /\ \E e \in AuthEntries, a27 \in Addresses, a28 \in Addresses :
        IngestAuthorization(e, a27, a28)

\* one authorization entry, flat or nested, normalised and recovered
SpecIngest == Init /\ [][NextIngest]_vars

NextTuple ==
  /\ rec = CallIdle
  /\ \E chainId \in ChainIdInputs, address \in AddressInputs, nonce \in NonceInputs,
        networkChainId \in NetworkChainIds :
          BuildAuthTuple([chainId |-> chainId, address |-> address, nonce |-> nonce],
                         networkChainId)

\* the tuple recoverAuthorityAddress encodes, for every representation of its integers
SpecTuple == Init /\ [][NextTuple]_vars

NextOrchHistory ==
  /\ ohist = CallIdle
  /\ \E reg \in Registries, limit \in 0..MaxLimit :
       \E results \in [{reg[i] : i \in DOMAIN reg} -> ChildHistories] :
         OrchGetDelegationHistory(reg, results, limit)

\* the Orchestrator's getDelegationHistory over every registry and every child outcome
SpecOrchHistory == Init /\ [][NextOrchHistory]_vars

\* ================================================================ claims

\* occurrences of r in a sequence of emitted records
Occurrences(seq, r) == Cardinality({i \in DOMAIN seq : seq[i] = r})

\* C1: no Scanner ever contacts a host other than the caller-supplied request and
\* subscription endpoints, and nothing received over the network is ever run as code.
C1_NoFetchAndEvaluate == contacted \subseteq CallerEndpoints /\ ~evaluated

\* C2: a new-block notification to a watching Scanner emits each record that
\* scanBlock returned for the block exactly once as a 'delegation' event.
C2_OneEventPerRecord ==
  (last.op = "block" /\ last.scans = 1) =>
     /\ Len(last.delegations) = last.records
     /\ \A r \in 1..last.records : Occurrences(last.delegations, r) = 1

\* names of the entries of a constructor list whose Scanner construction fails
FailingNames(entries) ==
  LET f == SelectSeq(entries, LAMBDA e : setupProviderThrows(e.name, e.rpc))
  IN  [i \in 1..Len(f) |-> f[i].name]

\* C3: constructing the Orchestrator completes whatever entries fail, registers a
\* Scanner for every entry that does not fail, and emits one error event tagged with
\* the name of each failing entry.
C3_ConstructionIsolatesFailures ==
  last.op = "construct" =>
     /\ phase = "ready"
     /\ ~last.raised
     /\ \A i \in DOMAIN last.entries :
          ~setupProviderThrows(last.entries[i].name, last.entries[i].rpc)
            => Has(scanners, last.entries[i].name)
     /\ last.errors = FailingNames(last.entries)

\* C4 as claimed: every startMonitoring() call sets the flag, calls watchBlocks() on
\* every registered Scanner, emits an error event per failing network and does not raise.
C4_StartAlwaysWatchesAll ==
  last.op = "startMonitoring" =>
     /\ isMonitoring
     /\ last.watched = Ids(scanners)
     /\ last.errors = TagsOf(scanners, last.failed)
     /\ ~last.raised

\* C4 as amended: startMonitoring() leaves the flag set and never raises; called with
\* the flag clear it calls watchBlocks() on every registered Scanner, whichever of them
\* fail, and emits one error event tagged with each failing network (delivered when the
\* Orchestrator has an 'error' listener); called with the flag set it calls none.
C4_StartMonitoring ==
  last.op = "startMonitoring" =>
     /\ isMonitoring
     /\ ~last.raised
     /\ IF last.monitoringBefore
          THEN last.watched = {} /\ last.errors = <<>>
          ELSE /\ last.watched = Ids(scanners)
               /\ last.errors = TagsOf(scanners, last.failed)
               /\ errListener => last.delivered = last.errors
               /\ \A i \in last.watched \ last.failed : inst[i].intervals > 0

C4_Witness ==
  /\ last.op = "startMonitoring"
  /\ ~last.monitoringBefore
  /\ last.failed # {}
  /\ last.watched \ last.failed # {}
  /\ \E i \in last.watched \ last.failed : ActiveSubscriptions(inst[i]) > 0

\* C5: stopMonitoring() clears the flag, calls stop() on every registered Scanner even
\* when stop() raises for some of them, and does not raise itself.
C5_StopToleratesFailures ==
  last.op = "stopMonitoring" =>
     /\ ~isMonitoring
     /\ last.stopped = Ids(scanners)
     /\ ~last.raised

\* C6: addNetwork with a name that is already registered returns false and changes
\* neither the registry, nor any Scanner, nor the global monitoring flag.
C6_AddExistingChangesNothing ==
  [][ (last'.op = "addNetwork" /\ Has(scanners, last'.name)) =>
        /\ last'.ret = "false"
        /\ ~last'.raised
        /\ last'.watched = {} /\ last'.stopped = {} /\ last'.errors = <<>>
        /\ scanners' = scanners
        /\ inst' = inst
        /\ isMonitoring' = isMonitoring ]_vars

C6_Witness ==
  /\ last.op = "addNetwork"
  /\ last.ret = "false"
  /\ Has(scanners, last.name)
  /\ isMonitoring
  /\ ActiveSubscriptions(inst[Get(scanners, last.name)]) > 0

\* C7: a successful addNetwork calls watchBlocks() on the new Scanner exactly when the
\* global flag is set at the call; with the flag clear the Scanner is registered
\* unwatched, and a registered Scanner that was never watched is first watched by a
\* startMonitoring() call.
C7_AddWatchesIffMonitoring ==
  [][ /\ (last'.op = "addNetwork" /\ last'.ret = "true") =>
          /\ Has(scanners', last'.name)
          /\ Get(scanners', last'.name) = last'.id
          /\ last'.id \notin DOMAIN inst
          /\ (last'.id \in last'.watched) <=> isMonitoring
          /\ (isMonitoring /\ last'.failed = {}) => ActiveSubscriptions(inst'[last'.id]) = 1
          /\ ~isMonitoring => /\ ActiveSubscriptions(inst'[last'.id]) = 0
                              /\ inst'[last'.id].intervals = 0
      /\ \A i \in DOMAIN inst :
           (inst[i].intervals = 0 /\ inst'[i].intervals > 0) => last'.op = "startMonitoring"
    ]_vars

C7_Witness ==
  /\ last.op = "addNetwork"
  /\ last.ret = "true"
  /\ last.monitoringBefore
  /\ last.watched = {last.id}
  /\ ActiveSubscriptions(inst[last.id]) = 1

\* C8: removeNetwork(name) on a monitoring Orchestrator with at least two registered
\* networks leaves every other Scanner registered, in the Watching state (the
\* `monitoring` value getStatus() reports) and holding its block subscription.
C8_SiblingsStayWatching ==
  [][ (last'.op = "removeNetwork" /\ isMonitoring /\ Has(scanners, last'.name)
         /\ Len(scanners) >= 2) =>
        \A k \in 1..Len(scanners) :
          (scanners[k].name # last'.name /\ ActiveSubscriptions(inst[scanners[k].id]) > 0) =>
             /\ Has(scanners', scanners[k].name)
             /\ Get(scanners', scanners[k].name) = scanners[k].id
             /\ getStatusMonitoring(inst'[scanners[k].id])
             /\ ActiveSubscriptions(inst'[scanners[k].id]) > 0 ]_vars

\* C9 as claimed: removeNetwork(name) returns false with the registry unchanged exactly
\* when name is not registered; for a registered name the Scanner is stopped and the
\* name is gone from the registry afterwards.
C9_RemoveFailsOnlyWhenAbsent ==
  [][ last'.op = "removeNetwork" =>
        /\ (last'.ret = "false" /\ scanners' = scanners) <=> ~Has(scanners, last'.name)
        /\ Has(scanners, last'.name) =>
             /\ last'.stopped = {Get(scanners, last'.name)}
             /\ last'.name \notin getNetworks(scanners') ]_vars

\* C9 as amended: removeNetwork(name) returns false with the registry unchanged when
\* name is not registered; for a registered name stop() is called on its Scanner, and
\* if stop() returns the Scanner holds no block listener, the name is gone from the
\* registry and the call returns true, while if stop() raises the registry is unchanged,
\* an error event tagged with name is emitted and the call returns false (or rejects,
\* when the Orchestrator has no 'error' listener).
C9_RemoveNetwork ==
  [][ last'.op = "removeNetwork" =>
        IF ~Has(scanners, last'.name)
          THEN last'.ret = "false" /\ scanners' = scanners /\ inst' = inst
          ELSE LET id == Get(scanners, last'.name) IN
               /\ last'.stopped = {id}
               /\ IF last'.failed = {}
                    THEN /\ last'.ret = "true"
                         /\ ActiveSubscriptions(inst'[id]) = 0
                         /\ last'.name \notin getNetworks(scanners')
                         /\ scanners' = MapDelete(scanners, last'.name)
                    ELSE /\ scanners' = scanners
                         /\ last'.errors = <<last'.name>>
                         /\ IF errListener THEN last'.ret = "false" /\ ~last'.raised
                                           ELSE last'.raised ]_vars

C9_Witness ==
  /\ last.op = "removeNetwork"
  /\ last.ret = "false"
  /\ last.failed # {}
  /\ Has(scanners, last.name)
  /\ Get(scanners, last.name) \in last.failed

\* C10: a Scanner's monitoring flag is set exactly when the Scanner holds an active
\* block subscription: clear after construction, set by watchBlocks(), clear after stop().
C10_FlagTracksSubscription ==
  \A i \in DOMAIN inst : getStatusMonitoring(inst[i]) <=> ActiveSubscriptions(inst[i]) > 0

\* the last n calls made on the Scanner used directly
LastCalls(n) == IF Len(calls) < n THEN <<>> ELSE SubSeq(calls, Len(calls) - n + 1, Len(calls))

\* C11: after a stop() that returned, the Scanner holds no block subscription and no
\* running keep-alive timer, and once no 'block' callback is in flight no callback of
\* the Scanner emits a 'delegation' or 'error' event until watchBlocks() is called again.
C11_StopReleasesAll ==
  [][ /\ (out'.op = "stop" /\ ~out'.raised) =>
          (ActiveSubscriptions(sc') = 0 /\ sc'.intervals = 0)
      /\ (LastCalls(1) = <<"stop">> /\ calls' = calls /\ inflight = 0) =>
          (out'.delegations = 0 /\ out'.errors = 0) ]_vars

\* C12: stop() on a Scanner that holds no subscription (never watched, or already
\* stopped), with or without a WebSocket provider, does not raise when the provider
\* calls it makes return, leaves the Scanner without subscription and with its flag
\* clear, and a second stop() changes nothing more.
C12_StopIdempotent ==
  [][ (out'.op = "stop" /\ out'.fail = "none" /\ LastCalls(1) \in {<<>>, <<"stop">>}) =>
        /\ ~out'.raised
        /\ ActiveSubscriptions(sc') = 0
        /\ ~getStatusMonitoring(sc')
        /\ stop(sc', "none") = sc'
        /\ LastCalls(1) = <<"stop">> => sc' = sc ]_vars

C12_Witness ==
  /\ out.op = "stop"
  /\ ~out.raised
  /\ LastCalls(2) = <<"stop", "stop">>
  /\ sc.hasWs
  /\ ActiveSubscriptions(sc) = 0

\* C13: after watchBlocks(), stop(), watchBlocks() the Scanner holds a live block
\* subscription again, so that every later block is scanned, with a WebSocket provider
\* as well as without one.
C13_ResumeAfterStop ==
  LastCalls(3) = <<"watch", "stop", "watch">> => ActiveSubscriptions(sc) > 0

\* C14: no operation of the Orchestrator and no callback of a Scanner ends in an
\* uncaught exception or an unhandled rejection, whatever listeners are registered.
C14_NothingUncaught == ~last.raised /\ ~last.unhandled

\* the transactions of a block that scanBlock has to report, by index: the body was
\* fetched, it is a type-4 transaction with a non-empty authorization list, and building
\* its record did not raise
Reportable(txs) ==
  LET idx == [i \in 1..Len(txs) |-> i]
  IN  SelectSeq(idx, LAMBDA i : /\ txs[i].fetch = "tx"
                               /\ txType(txs[i]) \in {"4", "'0x4'"}
                               /\ txs[i].auth = "list"
                               /\ txs[i].proc = "record")

\* C15: scanBlock does not raise and returns the empty list when the block fetch fails,
\* the block is absent, or the block has no transactions.
C15_BlockFailureReturnsEmpty ==
  (scan.op = "scanBlock" /\ (scan.block.get # "block" \/ scan.block.txs = <<>>)) =>
     ~scan.raised /\ scan.ret = <<>>

C15_Witness ==
  scan.op = "scanBlock" /\ scan.block.get = "rejects" /\ ~scan.raised /\ scan.ret = <<>>

\* C16: when the block fetch of scanBlock fails, the Scanner emits an 'error' event.
C16_FetchFailureEmitsError ==
  (scan.op = "scanBlock" /\ scan.block.get = "rejects") => scan.errors > 0

\* C17: for a block without a type-4 transaction scanBlock returns the empty list and
\* emits no 'delegation' event.
C17_NoType4NoRecords ==
  (scan.op = "scanBlock"
     /\ \A i \in DOMAIN scan.block.txs :
          scan.block.txs[i].fetch = "tx" => txType(scan.block.txs[i]) \notin {"4", "'0x4'"}) =>
     ~scan.raised /\ scan.ret = <<>> /\ scan.delegations = <<>>

C17_Witness ==
  /\ scan.op = "scanBlock"
  /\ scan.ret = <<>>
  /\ \E i \in DOMAIN scan.block.txs :
       /\ scan.block.txs[i].fetch = "tx"
       /\ scan.block.txs[i].auth = "list"
       /\ scan.block.txs[i].proc = "record"
       /\ txType(scan.block.txs[i]) = "2"

\* C18: a transaction whose body cannot be fetched, or whose processing raises, is
\* skipped: scanBlock returns, in block order, one record for every other qualifying
\* transaction of the block.
C18_TransactionFailureIsolated ==
  (scan.op = "scanBlock" /\ scan.block.get = "block") =>
     ~scan.raised /\ scan.ret = Reportable(scan.block.txs)

C18_Witness ==
  /\ scan.op = "scanBlock"
  /\ Len(scan.ret) >= 1
  /\ \E i \in DOMAIN scan.block.txs :
       scan.block.txs[i].fetch = "rejects" \/ scan.block.txs[i].proc = "raises"

\* matching transactions in the blocks lo..hi that the provider serves
RECURSIVE MatchingIn(_, _, _)
MatchingIn(chain, lo, hi) ==
  IF lo > hi THEN 0
  ELSE Cardinality({j \in DOMAIN chain[lo].txs : historyMatches(chain[lo].txs[j])})
       + MatchingIn(chain, lo + 1, hi)

\* the lookback window of a chain
Window(chain) == historyFromBlock(latestBlock(chain))..latestBlock(chain)

\* C19: getDelegationHistory(address, limit) with limit >= 1 returns at most limit
\* entries, however the matching transactions lie in the blocks of the window.
C19_AtMostLimit ==
  (hist.op = "history" /\ hist.limit >= 1) => Len(hist.ret) <= hist.limit

\* C20: getDelegationHistory(address, limit) returns fewer than limit entries only
\* after it has fetched every block of the lookback window: when the blocks the provider
\* serves in the window hold at least limit matching transactions, it returns at least
\* limit entries.
C20_FewerOnlyWhenExhausted ==
  (hist.op = "history" /\ ~hist.raised) =>
     /\ Len(hist.ret) < hist.limit => hist.walked = Window(hist.chain)
     /\ MatchingIn(hist.chain, historyFromBlock(latestBlock(hist.chain)),
                   latestBlock(hist.chain)) >= hist.limit
          => Len(hist.ret) >= hist.limit

C20_Witness ==
  /\ hist.op = "history"
  /\ ~hist.raised
  /\ hist.limit = 2
  /\ Len(hist.ret) = 2
  /\ hist.ret[1][1] - hist.ret[2][1] > ChunkStep

\* the entries the children of a fan-out resolved to, tagged with their registry key
TaggedEntries(reg, results) ==
  UNION { {[blockNumber |-> results[reg[i]].blocks[k], network |-> reg[i], k |-> k] :
             k \in DOMAIN results[reg[i]].blocks} :
          i \in {j \in DOMAIN reg : ~results[reg[j]].rejects} }

\* C21: the Orchestrator's getDelegationHistory does not fail when a child's call fails;
\* it returns entries of the children that resolved, each once and tagged with the name
\* its Scanner is registered under, in non-increasing order of blockNumber, as many as
\* there are up to `limit`, and no entry left out has a higher blockNumber than one kept.
C21_MergedSortedTruncated ==
  ohist.op = "history" =>
     LET all == TaggedEntries(ohist.reg, ohist.results)
         ret == ohist.ret
     IN  /\ ~ohist.raised
         /\ \A i \in DOMAIN ret : ret[i] \in all
         /\ \A i, j \in DOMAIN ret : i # j => ret[i] # ret[j]
         /\ \A i, j \in DOMAIN ret : i < j => ret[i].blockNumber >= ret[j].blockNumber
         /\ Len(ret) = IF Cardinality(all) <= ohist.limit THEN Cardinality(all) ELSE ohist.limit
         /\ \A e \in all : (\A i \in DOMAIN ret : ret[i] # e) =>
              \A i \in DOMAIN ret : ret[i].blockNumber >= e.blockNumber

C21_Witness ==
  /\ ohist.op = "history"
  /\ Len(ohist.reg) = 2
  /\ ohist.results[ohist.reg[1]].rejects
  /\ Len(ohist.results[ohist.reg[2]].blocks) = 2
  /\ ohist.limit = 1
  /\ Len(ohist.ret) = 1
  /\ ohist.ret[1].blockNumber = 2
  /\ ohist.ret[1].k = 2

\* C22: each 'delegation', 'error', 'connected' or 'disconnected' event a registered
\* child Scanner emits is emitted once by the Orchestrator, tagged with the name that
\* Scanner is registered under.
C22_ForwardedOnceWithOwnName ==
  (last.op = "emit" /\ last.id \in Ids(scanners)) =>
     /\ Len(last.forwarded) = 1
     /\ Has(scanners, last.forwarded[1])
     /\ Get(scanners, last.forwarded[1]) = last.id

C22_Witness ==
  /\ last.op = "emit"
  /\ last.name = "error"
  /\ Len(scanners) = 2
  /\ Has(scanners, "BSC")
  /\ Get(scanners, "BSC") = last.id
  /\ last.forwarded = <<"BSC">>

\* the transaction of the last ProcessTransaction with recovery of its first entry failing
WithoutRecovery(tx) ==
  [tx EXCEPT !.authorizationList[1].recover = "null"]

\* C23: a record whose authority was recovered from the signature differs from the record
\* of the same transaction with recovery failing, also when the recovered signer is the
\* transaction sender.
C23_RecoveredDistinguishable ==
  (proc.op = "process" /\ proc.records # <<>>
     /\ proc.tx.authorizationList[1].recover \in {"0xaa", "0xbb"}) =>
     proc.records[1] # delegationRecord(WithoutRecovery(proc.tx))

\* transactions of a block that pass scanBlock's filter
QualifyingIn(txs) == {i \in DOMAIN txs : txs[i].fetch = "tx" /\ isDelegationTx(txs[i])}

\* C29: a transaction yields at most one record, none unless it qualifies, and the
\* record's delegatedTo, nonce and authority come from entry 0 of its authorization list
\* whatever the length of the list; scanBlock returns no more records than the block has
\* qualifying transactions.
C29_OneRecordFromFirstEntry ==
  /\ proc.op = "process" =>
       /\ Len(proc.records) <= 1
       /\ proc.records # <<>> =>
            LET e == proc.tx.authorizationList[1]
                r == proc.records[1]
            IN  /\ proc.tx.type = "4" /\ proc.tx.authorizationList # <<>>
                /\ r.delegatedTo = addressToLowerCase(e.address)
                /\ r.nonce = e.nonce
                /\ r.authority = IF e.recover \in {"null", "throws"}
                                   THEN addressToLowerCase(proc.tx.from) ELSE e.recover
  /\ scan.op = "scanBlock" => Len(scan.ret) <= Cardinality(QualifyingIn(scan.block.txs))

C29_Witness ==
  /\ proc.op = "process"
  /\ Len(proc.tx.authorizationList) = 2
  /\ proc.tx.authorizationList[1].address = "0xCC"
  /\ proc.tx.authorizationList[2].address = "0x00"
  /\ proc.tx.authorizationList[1].recover = "0xbb"
  /\ proc.tx.authorizationList[2].recover = "0xaa"
  /\ Len(proc.records) = 1
  /\ proc.records[1].delegatedTo = "0xcc"

\* C24: a scanBlocks(count, fromBlock) call that returned has called scanBlock once for
\* each block of a contiguous range of exactly count blocks, which begins at fromBlock
\* when fromBlock is given (0 included) and otherwise ends at the latest block.
C24_ExactlyCountBlocks ==
  (rng.op = "scanBlocks" /\ rng.done /\ ~rng.raised) =>
     /\ Len(rng.invoked) = rng.count
     /\ \A k \in 1..(Len(rng.invoked) - 1) : rng.invoked[k + 1] = rng.invoked[k] + 1
     /\ rng.count > 0 =>
          IF rng.from.given THEN rng.invoked[1] = rng.from.value
                            ELSE rng.invoked[Len(rng.invoked)] = rng.latest

\* C25: during a scanBlocks call no 'delegation' event for a block is emitted after an
\* event for a higher block.
C25_EventsInBlockOrder ==
  rng.op = "scanBlocks" =>
     \A i, j \in DOMAIN rng.events : i < j => rng.events[i] <= rng.events[j]

C27_PrefixedFirstThenFallback ==
  rec.op = "recover" =>
    /\ (~rec.encodingThrows /\ (isPresent(rec.v) \/ isPresent(rec.yParity))
          /\ rec.primary # "throws") =>
         /\ rec.ret = addressToLowerCase(rec.primary)
         /\ Len(rec.attempts) = 1
         /\ rec.attempts[1].digest = "magic"
    /\ \A k \in DOMAIN rec.attempts :
         rec.attempts[k].digest = "plain" =>
           /\ k = 2
           /\ rec.attempts[1].digest = "magic"
           /\ rec.primary = "throws"
    /\ rec.ret = "null" =>
         \/ ~(isPresent(rec.v) \/ isPresent(rec.yParity))
         \/ rec.encodingThrows
         \/ rec.primary = "throws" /\ rec.fallback = "throws"
    /\ rec.ret # "null" => rec.ret \in {addressToLowerCase(a) : a \in Addresses}

C27_Witness ==
  /\ rec.op = "recover"
  /\ rec.primary = "throws"
  /\ rec.fallback = "0xBB"
  /\ rec.ret = "0xbb"
  /\ Len(rec.attempts) = 2

\* C30: the recovery parameter used is v when an explicit v is present, otherwise 27 when
\* yParity is 0 and 28 when yParity is 1; when neither is present the function returns
\* null without attempting any recovery.
C30_RecoveryParameterRule ==
  rec.op = "recover" =>
    /\ \A k \in DOMAIN rec.attempts :
         rec.attempts[k].v =
           IF isPresent(rec.v) THEN rec.v
           ELSE IF rec.yParity \in {"0", "0x0"} THEN "27" ELSE "28"
    /\ (~isPresent(rec.v) /\ rec.yParity \in {"0", "0x0", "1", "0x1"} /\ ~rec.encodingThrows)
          => rec.attempts # <<>>
    /\ (~isPresent(rec.v) /\ ~isPresent(rec.yParity)) =>
         /\ rec.ret = "null"
         /\ rec.attempts = <<>>

C30_Witness ==
  /\ rec.op = "recover"
  /\ rec.v = "undefined"
  /\ rec.yParity = "1"
  /\ Len(rec.attempts) = 2
  /\ rec.attempts[1].v = "28"
  /\ rec.attempts[2].v = "28"

\* the type discriminator of a fetched transaction denotes 4: the number 4, or a hex
\* string whose value is 4
DenotesType4(tx) ==
  \/ tx.type \in {"4", "'0x4'", "'0x04'"}
  \/ tx.type = "undefined" /\ tx.typeHex = "0x4"

\* C28: scanBlock selects a fetched transaction if and only if its type discriminator
\* denotes 4 in either encoding (the number 4, or a hex string denoting 4 such as "0x4" or
\* "0x04") and its authorization list is non-empty; every selected transaction that
\* processes without error yields a record.
C28_SelectsEveryType4Encoding ==
  (scan.op = "scanBlock" /\ scan.block.get = "block") =>
     \A i \in DOMAIN scan.block.txs :
        (\E k \in DOMAIN scan.ret : scan.ret[k] = i)
          <=> /\ scan.block.txs[i].fetch = "tx"
              /\ DenotesType4(scan.block.txs[i])
              /\ scan.block.txs[i].auth = "list"
              /\ scan.block.txs[i].proc = "record"

\* the recovery id a set of signature fields denotes: v, or 27 / 28 for yParity 0 / 1
DenotedRecoveryId(sig) ==
  IF sig.v # "undefined" THEN sig.v
  ELSE IF sig.yParity \in {"0", "0x0"} THEN "27"
  ELSE IF sig.yParity \in {"1", "0x1"} THEN "28" ELSE "none"

\* C31: an entry whose signature material arrives nested under `signature` (r, s and
\* either v or yParity in {0, 1}) is normalised to flat r and s equal to the nested values
\* and a recovery id equal to the nested one, so it recovers the same authority as the
\* flat form of the same signature.
C31_NestedNormalisedLikeFlat ==
  (/\ rec.op = "ingest"
   /\ rec.entry.object
   /\ rec.entry.flat = NoSignatureFields
   /\ rec.entry.signature.r # "undefined"
   /\ rec.entry.signature.s # "undefined"
   /\ DenotedRecoveryId(rec.entry.signature) # "none") =>
     /\ rec.normalized.r = rec.entry.signature.r
     /\ rec.normalized.s = rec.entry.signature.s
     /\ recoveryParameter(rec.normalized.v, rec.normalized.yParity)
          = DenotedRecoveryId(rec.entry.signature)
     /\ rec.ret = recoverFlat(rec.entry.signature, rec.a27, rec.a28).ret

\* the integer a big-endian byte string denotes
RECURSIVE bytesValue(_)
bytesValue(bytes) ==
  IF bytes = <<>> THEN 0
  ELSE 256 * bytesValue(SubSeq(bytes, 1, Len(bytes) - 1)) + bytes[Len(bytes)]

\* the integer an input denotes; an absent one denotes 0
DenotedValue(x) == IF x.kind = "undefined" THEN 0 ELSE BigInt(x)

\* a byte string is the minimal encoding of n: the empty string for 0, and otherwise the
\* big-endian bytes of n without a leading zero byte
MinimalEncoding(bytes, n) ==
  /\ bytesValue(bytes) = n
  /\ bytes # <<>> => bytes[1] # 0

\* C32: in the tuple recoverAuthorityAddress encodes, an integer of value zero is the
\* empty byte string and never a zero byte, for every representation of zero (absent
\* nonce, 0, "0x0", "0x00"), and a nonce >= 1 is its minimal big-endian byte string.
C32_MinimalIntegerEncoding ==
  rec.op = "tuple" =>
    /\ MinimalEncoding(rec.tuple.nonce, DenotedValue(rec.auth.nonce))
    /\ MinimalEncoding(rec.tuple.chainId, bytesValue(rec.tuple.chainId))

\* C33: the chain id in the signed tuple is the entry's own chainId whenever the entry
\* carries one (0 included); the network's chain id is used only when it is absent.
C33_OwnChainIdWhenPresent ==
  rec.op = "tuple" =>
    bytesValue(rec.tuple.chainId) =
      IF rec.auth.chainId.kind # "undefined"
        THEN BigInt(rec.auth.chainId) ELSE BigInt(rec.networkChainId)

RECURSIVE SumOver(_, _)
SumOver(f, S) ==
  IF S = {} THEN 0
  ELSE LET x == CHOOSE y \in S : TRUE IN f[x] + SumOver(f, S \ {x})

\* requests of the scanBlocks call that the endpoint has not answered yet
RequestsInFlight == Cardinality(rng.fetching) + SumOver(rng.txRequests, DOMAIN rng.txRequests)

\* C34: during one scanBlocks call the number of requests simultaneously in flight to
\* the endpoint never exceeds the batch size; a new batch is started only after every
\* scan of the previous batch has completed.
C34_RequestsBoundedByBatch ==
  rng.op = "scanBlocks" =>
    /\ RequestsInFlight <= BatchSize
    /\ Cardinality(rng.inflight) <= BatchSize

\* C35: an iteration over the registry is never disturbed: every Scanner registered when
\* startMonitoring() begins gets watchBlocks() invoked, and every Scanner registered when
\* stopMonitoring() begins gets stop() invoked, with none skipped.
C35_IterationVisitsEveryScanner ==
  [][ /\ last'.op = "startMonitoring" => last'.watched = Ids(scanners)
      /\ last'.op = "stopMonitoring" => last'.stopped = Ids(scanners) ]_vars

\* C36: watchBlocks() on a Scanner that is already watching leaves it with exactly one
\* block subscription and one keep-alive timer, so a new block still starts one scan.
C36_WatchIdempotent ==
  /\ calls = <<"watch", "watch">> => (ActiveSubscriptions(sc) = 1 /\ sc.intervals = 1)
  /\ (LastCalls(2) = <<"watch", "watch">> /\ Len(calls) = 2 /\ out.op = "block")
        => out.started = 1

\* C37: in every state reached by addNetwork, removeNetwork, startMonitoring and
\* stopMonitoring calls of which no watchBlocks() or stop() failed: with the global flag
\* set every registered Scanner holds exactly one active block subscription and one
\* keep-alive timer, and with the flag clear no registered Scanner holds either.
C37_FlagMatchesSubscriptions ==
  phase = "ready" =>
    \A k \in 1..Len(scanners) :
      LET s == inst[scanners[k].id]
      IN  IF isMonitoring
            THEN ActiveSubscriptions(s) = 1 /\ s.intervals = 1
            ELSE ActiveSubscriptions(s) = 0 /\ s.intervals = 0

\* C38: getDelegationHistory fetches each block of the lookback window at most once, so
\* no matching transaction appears twice in the returned history, the blocks on the
\* boundary between two consecutive chunks included.
C38_NoDuplicateHistoryEntries ==
  hist.op = "history" =>
    \A i, j \in DOMAIN hist.ret : i < j => hist.ret[i] # hist.ret[j]

\* C39: after construction, addNetwork and removeNetwork calls no two registered Scanners
\* monitor the same network: the name a Scanner is registered under is that Scanner's own
\* lower-cased network name.
C39_OneScannerPerNetwork ==
  phase = "ready" =>
    /\ \A k \in 1..Len(scanners) : scanners[k].name = inst[scanners[k].id].network
    /\ \A k, l \in 1..Len(scanners) :
         k # l => inst[scanners[k].id].network # inst[scanners[l].id].network

====
